---- MODULE Spec2Model ----
(***************************************************************************)
(* Conversation memory of cf_ai_study_buddy: the Durable Objects that keep *)
(* a chat session's messages and rolling summary.                          *)
(*                                                                         *)
(*   ChatMemory      src/memory-worker.js          fixed window            *)
(*   RollingMemory   src/rolling-memory-worker.js  inline summarization    *)
(*   WorkflowMemory  src/unnamed/part_002          deferred summarization  *)
(*   SummarizationWorkflow  src/unnamed/part_002   the background job      *)
(*                                                                         *)
(* One worker is deployed at a time (cfg.variant).  A Durable Object runs  *)
(* one event at a time, and its storage operations do not let another      *)
(* event in; an await on the inference binding or on the workflow binding  *)
(* does.  A handler is therefore cut into one action per stretch of code   *)
(* between two such awaits.                                                *)
(*                                                                         *)
(* Values.  A message is [role, content]; the content of the n-th user     *)
(* utterance of a session is n, the reply to it has content n, and the     *)
(* system prompt has content 0 (timestamps are written but never read).    *)
(* An optional value is a sequence of length 0 (null, undefined or an      *)
(* absent key, which every load treats alike) or 1.  The text the model    *)
(* returns for a summarization prompt is the value [of |-> prompt].        *)
(***************************************************************************)
EXTENDS Integers, Sequences, FiniteSets, TLC

VARIABLES
    cfg,        \* deployment and environment: variant, sessions, request limits
    storage,    \* state.storage of each Durable Object, by session name
    memory,     \* ChatSession's this.messages of the live instance, by session name
    req,        \* chat requests in flight: handler position and local variables
    jobs,       \* SummarizationWorkflow instances, in order of creation
    seq,        \* number of chat requests received so far, by session
    clock,      \* Date.now(), read by triggerSummarizationWorkflow
    overlaps,   \* number of requests that arrived while another was in flight
    hist,       \* observer: successful sequential turns since the session was fresh
    lastResp    \* observer: the response most recently returned

vars == <<cfg, storage, memory, req, jobs, seq, clock, overlaps, hist, lastResp>>

----------------------------------------------------------------------------
(* Bounds of the model *)

MaxInflight == 2
MaxOverlap == 2
MaxTurns == 6
MaxFixedTurns == 4
ScenarioTurns == 12

(* Configuration of the program *)

RECENT_MESSAGE_LIMIT == 8
SUMMARIZE_THRESHOLD == 12
MIN_BATCH == 4
MAX_MESSAGES == 20
SYSTEM_PROMPT == 0

None == <<>>
Some(v) == <<v>>

Sessions == {"alice", "chat"}
Slots == 1..MaxInflight

----------------------------------------------------------------------------
(* Array.prototype.slice, String.prototype.toUpperCase, Array.prototype.filter *)

Min(a, b) == IF a < b THEN a ELSE b
Max(a, b) == IF a > b THEN a ELSE b

RelativeIndex(i, n) == IF i < 0 THEN Max(n + i, 0) ELSE Min(i, n)

Slice(s, start, end) ==
    LET from == RelativeIndex(start, Len(s))
        to   == RelativeIndex(end, Len(s))
    IN  IF from < to THEN SubSeq(s, from + 1, to) ELSE <<>>

SliceFrom(s, start) == Slice(s, start, Len(s))

ToUpperCase(role) ==
    CASE role = "user"      -> "USER"
      [] role = "assistant" -> "ASSISTANT"
      [] role = "system"    -> "SYSTEM"

IsSystem(m) == m.role = "system"
NotSystem(m) == m.role # "system"
IsUser(m) == m.role = "user"
IsAssistant(m) == m.role = "assistant"

Msg(role, content) == [role |-> role, content |-> content]

----------------------------------------------------------------------------
(* Durable Object storage: get, put, delete *)

EmptyStorage == [summary |-> None, messages |-> <<>>, workflowStatus |-> None]

EmptyState == [summary |-> None, messages |-> <<>>, workflowStatus |-> None]

(* RollingMemory.loadState: summary || null, messages || [] *)
Rolling_loadState(d) ==
    [summary |-> d.summary, messages |-> d.messages, workflowStatus |-> None]

(* RollingMemory.saveState: put summary, put messages *)
Rolling_saveState(d, state) ==
    [d EXCEPT !.summary = state.summary, !.messages = state.messages]

(* RollingMemory.saveState when one of its two puts throws: the put of
   'summary' (nothing is written) or the put of 'messages' (the summary is) *)
Rolling_saveStateFailing(d, state, failing) ==
    IF failing = "summary" THEN d ELSE [d EXCEPT !.summary = state.summary]

----------------------------------------------------------------------------
(* The inference collaborator: env.AI.run *)

(* The block that carries the summary into the chat prompt: the stored text
   between a fixed heading and a fixed instruction to prioritise the recent
   messages. *)
ContextBlock(summary) == [context |-> summary]

(* buildMessagesForAI that leaves the summary out of the prompt *)
buildMessagesForAI_noContext(state) ==
    LET kept == SelectSeq(state.messages, NotSystem)
    IN  <<Msg("system", SYSTEM_PROMPT)>>
        \o [i \in 1..Len(kept) |-> Msg(kept[i].role, kept[i].content)]

(* RollingMemory.buildMessagesForAI and WorkflowMemory.buildMessagesForAI *)
buildMessagesForAI(state) ==
    LET kept == SelectSeq(state.messages, NotSystem)
    IN  <<Msg("system", SYSTEM_PROMPT)>>
        \o (IF state.summary # None
            THEN <<Msg("system", ContextBlock(state.summary[1]))>>
            ELSE <<>>)
        \o [i \in 1..Len(kept) |-> Msg(kept[i].role, kept[i].content)]

(* The reply to a chat prompt answers the utterance the turn has just pushed. *)
ChatReply(state) == state.messages[Len(state.messages)].content

(* env.AI.run on the prompt that handleChat builds from the state it saved *)
PromptReply(state) == ChatReply([messages |-> buildMessagesForAI(state)])

(* The text returned for a summarization prompt. *)
SummaryResponse(prompt) == [of |-> prompt]

----------------------------------------------------------------------------
(* RollingMemory.generateSummary: the prompt *)

ConversationText(messagesToSummarize) ==
    LET kept == SelectSeq(messagesToSummarize, NotSystem)
    IN  [i \in 1..Len(kept) |-> <<ToUpperCase(kept[i].role), kept[i].content>>]

(* faulty variant: the existing summary is never passed on *)
SummaryPrompt_replace(messagesToSummarize, existingSummary) ==
    [template |-> "create", existing |-> None,
     text |-> ConversationText(messagesToSummarize)]

SummaryPrompt(messagesToSummarize, existingSummary) ==
    IF existingSummary # None
    THEN [template |-> "merge", existing |-> existingSummary,
          text |-> ConversationText(messagesToSummarize)]
    ELSE [template |-> "create", existing |-> None,
          text |-> ConversationText(messagesToSummarize)]

(* RollingMemory.performSummarizationIfNeeded *)

MessagesToSummarize(state) == Slice(state.messages, 0, 0 - RECENT_MESSAGE_LIMIT)

(* faulty variant: slice(0, messagesToKeep), the oldest messages are kept *)
RecentMessages_oldest(state) == Slice(state.messages, 0, RECENT_MESSAGE_LIMIT)

RecentMessages(state) == SliceFrom(state.messages, 0 - RECENT_MESSAGE_LIMIT)

(* faulty variant: the threshold test written as <= instead of < *)
NeedsSummarization_strict(state) ==
    /\ ~(Len(state.messages) <= SUMMARIZE_THRESHOLD)
    /\ ~(Len(MessagesToSummarize(state)) < MIN_BATCH)

(* the policy without the batch test: any list longer than the recent window *)
NeedsSummarization_eager(state) == Len(state.messages) > RECENT_MESSAGE_LIMIT

NeedsSummarization(state) ==
    /\ ~(Len(state.messages) < SUMMARIZE_THRESHOLD)
    /\ ~(Len(MessagesToSummarize(state)) < MIN_BATCH)

(* faulty variant: newState keeps state.messages, nothing is pruned *)
SummarizedState_unpruned(state, newSummary) ==
    [summary |-> Some(newSummary), messages |-> state.messages,
     workflowStatus |-> None]

(* faulty variant: the list is pruned but the new summary is not kept *)
SummarizedState_noSummary(state, newSummary) ==
    [summary |-> None, messages |-> RecentMessages(state),
     workflowStatus |-> None]

SummarizedState(state, newSummary) ==
    [summary |-> Some(newSummary), messages |-> RecentMessages(state),
     workflowStatus |-> None]

(* faulty variant: the exception is swallowed and newState is saved with no summary *)
afterGenerateSummary_swallow(d, state, response) ==
    Rolling_saveState(d, [summary |-> IF response = None THEN None
                                      ELSE Some(response[1]),
                          messages |-> RecentMessages(state),
                          workflowStatus |-> None])

(* What the object's storage holds once generateSummary has settled: the call
   returned a text (Some) and newState is saved, or it threw (None) and the
   exception leaves performSummarizationIfNeeded before saveState. *)
afterGenerateSummary(d, state, response) ==
    IF response = None
    THEN d
    ELSE Rolling_saveState(d, SummarizedState(state, response[1]))

----------------------------------------------------------------------------
(* Requests, responses and the observers *)

(* The value of body.message, as far as the code looks at it: its typeof and
   its truthiness.  Text is a non-empty string, the other values are the empty
   string, a missing field, the numbers 42 and 0, and an object. *)
Text == [type |-> "string", truthy |-> TRUE]
NoMessage == [type |-> "undefined", truthy |-> FALSE]

MessageValues ==
    {Text, NoMessage,
     [type |-> "string", truthy |-> FALSE],
     [type |-> "number", truthy |-> TRUE],
     [type |-> "number", truthy |-> FALSE],
     [type |-> "object", truthy |-> TRUE]}

(* the workers' fetch: !userMessage || typeof userMessage !== 'string' *)
WorkerRejects(userMessage) == ~userMessage.truthy \/ userMessage.type # "string"

(* ChatSession.fetch: !userMessage *)
SessionRejects(userMessage) == ~userMessage.truthy

(* What a turn has done so far: saveState calls and puts of the session's
   state, calls of generateSummary, calls of SUMMARIZATION_WORKFLOW.create *)
NoEffects == [writes |-> 0, calls |-> 0, dispatches |-> 0]

(* a count of every storage put in place of every write of the state *)
Written_perPut(e) == [e EXCEPT !.writes = @ + 2]

Written(e) == [e EXCEPT !.writes = @ + 1]
CalledSummarizer(e) == [e EXCEPT !.calls = @ + 1]
Dispatched(e) == [e EXCEPT !.dispatches = @ + 1]

IdleReq ==
    [pc |-> "idle", session |-> "", message |-> NoMessage,
     loaded |-> EmptyState, state |-> EmptyState,
     sessionId |-> "", workflowId |-> None, effects |-> NoEffects]

NoResp ==
    [kind |-> "none", session |-> "", status |-> 0, chatOk |-> FALSE,
     wasSummarized |-> FALSE, workflowTriggered |-> FALSE, stage |-> "",
     recentMessages |-> 0, hasSummary |-> FALSE, again |-> FALSE,
     effects |-> NoEffects]

ChatResponse(s, state, summarized, triggered) ==
    [kind |-> "chat", session |-> s, status |-> 200, chatOk |-> TRUE,
     wasSummarized |-> summarized, workflowTriggered |-> triggered, stage |-> "",
     recentMessages |-> Len(state.messages), hasSummary |-> state.summary # None,
     again |-> FALSE, effects |-> NoEffects]

ErrorResponse(s, stage) ==
    [kind |-> "chat", session |-> s, status |-> 500, chatOk |-> stage # "chat",
     wasSummarized |-> FALSE, workflowTriggered |-> FALSE, stage |-> stage,
     recentMessages |-> 0, hasSummary |-> FALSE, again |-> FALSE,
     effects |-> NoEffects]

(* the response of a turn together with what the turn has done *)
Answer(response, effects) == [response EXCEPT !.effects = effects]

ValidationResponse(s) ==
    [NoResp EXCEPT !.kind = "chat", !.session = s, !.status = 400,
                   !.stage = "validation"]

(* again: the response before it was a clear of the same session *)
ClearResponse(s) ==
    [NoResp EXCEPT !.kind = "clear", !.session = s, !.status = 200,
                   !.again = (lastResp.kind = "clear" /\ lastResp.session = s)]

Active(s) == {r \in Slots : req[r].pc # "idle" /\ req[r].session = s}
InFlight == {r \in Slots : req[r].pc # "idle"}
TotalTurns == seq["alice"] + seq["chat"]

Fresh == [ok |-> 0, clean |-> TRUE]
Dirty == [ok |-> 0, clean |-> FALSE]

HistBegin(s) == IF Active(s) = {} THEN hist[s] ELSE Dirty
HistOk(s) == IF hist[s].clean THEN [hist[s] EXCEPT !.ok = @ + 1] ELSE Dirty
HistClear(s) == IF Active(s) = {} THEN Fresh ELSE Dirty

(* A request takes the lowest free slot: slots are interchangeable. *)
CanBegin(r, s) ==
    /\ s \in cfg.sessions
    /\ req[r].pc = "idle"
    /\ \A q \in Slots : q < r => req[q].pc # "idle"
    /\ Cardinality(InFlight) < cfg.maxInflight
    /\ TotalTurns < cfg.maxTurns
    /\ overlaps' = IF InFlight = {} THEN overlaps ELSE overlaps + 1
    /\ overlaps' <= cfg.maxOverlap

----------------------------------------------------------------------------
(* RollingMemory.handleChat *)

(* load, push the user message, save, call the model *)
Rolling_handleChat(r, s) ==
    /\ cfg.variant = "inline"
    /\ CanBegin(r, s)
    /\ \E userMessage \in cfg.inputs :
         /\ ~WorkerRejects(userMessage)
         /\ LET loaded == Rolling_loadState(storage[s])
                state  == [loaded EXCEPT
                             !.messages = Append(@, Msg("user", seq[s] + 1))]
            IN  /\ storage' = [storage EXCEPT ![s] = Rolling_saveState(@, state)]
                /\ req' = [req EXCEPT ![r] =
                             [IdleReq EXCEPT !.pc = "chat", !.session = s,
                                             !.message = userMessage,
                                             !.loaded = loaded, !.state = state,
                                             !.effects = Written(NoEffects)]]
    /\ seq' = [seq EXCEPT ![s] = @ + 1]
    /\ hist' = [hist EXCEPT ![s] = HistBegin(s)]
    /\ UNCHANGED <<cfg, memory, jobs, clock, lastResp>>

(* faulty variant: the policy is evaluated on the list before the reply is
   pushed and saved *)
Rolling_chatReplied_policyFirst(r) ==
    /\ cfg.variant = "inline"
    /\ req[r].pc = "chat"
    /\ LET s     == req[r].session
           state == [req[r].state EXCEPT
                        !.messages = Append(@, Msg("assistant", PromptReply(req[r].state)))]
       IN  /\ storage' = [storage EXCEPT ![s] = Rolling_saveState(@, state)]
           /\ IF NeedsSummarization(req[r].state)
              THEN /\ req' = [req EXCEPT
                                ![r].pc = "summarizing", ![r].state = state,
                                ![r].effects = CalledSummarizer(Written(@))]
                   /\ UNCHANGED <<hist, lastResp>>
              ELSE /\ req' = [req EXCEPT ![r] = IdleReq]
                   /\ hist' = [hist EXCEPT ![s] = HistOk(s)]
                   /\ lastResp' = Answer(ChatResponse(s, state, FALSE, FALSE),
                                         Written(req[r].effects))
    /\ UNCHANGED <<cfg, memory, jobs, seq, clock, overlaps>>

(* the model answered: push the reply, save, evaluate the policy *)
Rolling_chatReplied(r) ==
    /\ cfg.variant = "inline"
    /\ req[r].pc = "chat"
    /\ LET s     == req[r].session
           state == [req[r].state EXCEPT
                        !.messages = Append(@, Msg("assistant", PromptReply(req[r].state)))]
       IN  /\ storage' = [storage EXCEPT ![s] = Rolling_saveState(@, state)]
           /\ IF NeedsSummarization(state)
              THEN /\ req' = [req EXCEPT
                                ![r].pc = "summarizing", ![r].state = state,
                                ![r].effects = CalledSummarizer(Written(@))]
                   /\ UNCHANGED <<hist, lastResp>>
              ELSE /\ req' = [req EXCEPT ![r] = IdleReq]
                   /\ hist' = [hist EXCEPT ![s] = HistOk(s)]
                   /\ lastResp' = Answer(ChatResponse(s, state, FALSE, FALSE),
                                         Written(req[r].effects))
    /\ UNCHANGED <<cfg, memory, jobs, seq, clock, overlaps>>

(* the model failed on the chat call: the catch block answers 500 *)
Rolling_chatFailed(r) ==
    /\ cfg.variant = "inline"
    /\ req[r].pc = "chat"
    /\ req' = [req EXCEPT ![r] = IdleReq]
    /\ hist' = [hist EXCEPT ![req[r].session] = Dirty]
    /\ lastResp' = Answer(ErrorResponse(req[r].session, "chat"), req[r].effects)
    /\ UNCHANGED <<cfg, memory, storage, jobs, seq, clock, overlaps>>

(* generateSummary returned: save the new state, answer *)
Rolling_summaryGenerated(r) ==
    /\ cfg.variant = "inline"
    /\ req[r].pc = "summarizing"
    /\ LET s        == req[r].session
           state    == req[r].state
           prompt   == SummaryPrompt(MessagesToSummarize(state), state.summary)
           newState == SummarizedState(state, SummaryResponse(prompt))
       IN  /\ storage' = [storage EXCEPT ![s] =
                            afterGenerateSummary(@, state, Some(SummaryResponse(prompt)))]
           /\ lastResp' = Answer(ChatResponse(s, newState, TRUE, FALSE),
                                 Written(req[r].effects))
           /\ hist' = [hist EXCEPT ![s] = HistOk(s)]
    /\ req' = [req EXCEPT ![r] = IdleReq]
    /\ UNCHANGED <<cfg, memory, jobs, seq, clock, overlaps>>

(* generateSummary threw: nothing catches it before handleChat's catch block *)
Rolling_summaryFailed(r) ==
    /\ cfg.variant = "inline"
    /\ req[r].pc = "summarizing"
    /\ storage' = [storage EXCEPT ![req[r].session] =
                     afterGenerateSummary(@, req[r].state, None)]
    /\ req' = [req EXCEPT ![r] = IdleReq]
    /\ hist' = [hist EXCEPT ![req[r].session] = Dirty]
    /\ lastResp' = Answer(ErrorResponse(req[r].session, "summary"), req[r].effects)
    /\ UNCHANGED <<cfg, memory, jobs, seq, clock, overlaps>>

(* faulty variant: only the messages are deleted *)
Rolling_handleClearMemory_messagesOnly(s) ==
    /\ cfg.variant = "inline"
    /\ s \in cfg.sessions
    /\ storage' = [storage EXCEPT ![s] = [@ EXCEPT !.messages = <<>>]]
    /\ hist' = [hist EXCEPT ![s] = HistClear(s)]
    /\ lastResp' = ClearResponse(s)
    /\ UNCHANGED <<cfg, memory, req, jobs, seq, clock, overlaps>>

(* the model answered, but the saveState after the reply throws: the catch
   block answers 500 *)
Rolling_replySaveFailed(r, failing) ==
    /\ cfg.variant = "inline"
    /\ cfg.faults
    /\ req[r].pc = "chat"
    /\ LET s     == req[r].session
           state == [req[r].state EXCEPT
                        !.messages = Append(@, Msg("assistant", PromptReply(req[r].state)))]
       IN  /\ storage' = [storage EXCEPT ![s] = Rolling_saveStateFailing(@, state, failing)]
           /\ hist' = [hist EXCEPT ![s] = Dirty]
           /\ lastResp' = Answer(ErrorResponse(s, "persist"), Written(req[r].effects))
    /\ req' = [req EXCEPT ![r] = IdleReq]
    /\ UNCHANGED <<cfg, memory, jobs, seq, clock, overlaps>>

(* generateSummary returned, but the saveState of newState throws: the catch
   block answers 500 *)
Rolling_summarySaveFailed(r, failing) ==
    /\ cfg.variant = "inline"
    /\ cfg.faults
    /\ req[r].pc = "summarizing"
    /\ LET s        == req[r].session
           state    == req[r].state
           prompt   == SummaryPrompt(MessagesToSummarize(state), state.summary)
           newState == SummarizedState(state, SummaryResponse(prompt))
       IN  /\ storage' = [storage EXCEPT
                            ![s] = Rolling_saveStateFailing(@, newState, failing)]
           /\ hist' = [hist EXCEPT ![s] = Dirty]
           /\ lastResp' = Answer(ErrorResponse(s, "persist"), Written(req[r].effects))
    /\ req' = [req EXCEPT ![r] = IdleReq]
    /\ UNCHANGED <<cfg, memory, jobs, seq, clock, overlaps>>

(* RollingMemory.handleClearMemory: delete summary, delete messages *)
Rolling_handleClearMemory(s) ==
    /\ cfg.variant = "inline"
    /\ s \in cfg.sessions
    /\ storage' = [storage EXCEPT ![s] = [@ EXCEPT !.summary = None, !.messages = <<>>]]
    /\ hist' = [hist EXCEPT ![s] = HistClear(s)]
    /\ lastResp' = ClearResponse(s)
    /\ UNCHANGED <<cfg, memory, req, jobs, seq, clock, overlaps>>

NextRolling ==
    \/ \E r \in Slots, s \in Sessions : Rolling_handleChat(r, s)
    \/ \E r \in Slots : Rolling_chatReplied(r)
    \/ \E r \in Slots : Rolling_chatFailed(r)
    \/ \E r \in Slots : Rolling_summaryGenerated(r)
    \/ \E r \in Slots : Rolling_summaryFailed(r)
    \/ \E r \in Slots, failing \in {"summary", "messages"} :
          Rolling_replySaveFailed(r, failing)
    \/ \E r \in Slots, failing \in {"summary", "messages"} :
          Rolling_summarySaveFailed(r, failing)
    \/ \E s \in Sessions : Rolling_handleClearMemory(s)

----------------------------------------------------------------------------
(* ChatMemory: loadMessages, saveMessages, pruneMessages, addMessage *)

ChatMemory_loadMessages(d) == d.messages

ChatMemory_saveMessages(d, messages) == [d EXCEPT !.messages = messages]

pruneMessages(messages) ==
    IF Len(messages) <= MAX_MESSAGES
    THEN messages
    ELSE LET systemMessages       == SelectSeq(messages, IsSystem)
             conversationMessages == SelectSeq(messages, NotSystem)
             maxConversationMessages == MAX_MESSAGES - Len(systemMessages)
         IN  systemMessages \o SliceFrom(conversationMessages, 0 - maxConversationMessages)

addMessage(d, role, content) ==
    ChatMemory_saveMessages(d,
        pruneMessages(Append(ChatMemory_loadMessages(d), Msg(role, content))))

(* ChatMemory.handleChat: system prompt on the first turn, addMessage('user'),
   reload, call the model *)
ChatMemory_handleChat(r, s) ==
    /\ cfg.variant = "fixed"
    /\ CanBegin(r, s)
    /\ \E userMessage \in cfg.inputs :
         /\ ~WorkerRejects(userMessage)
         /\ LET before   == ChatMemory_loadMessages(storage[s])
                seeded   == IF Len(before) = 0
                            THEN ChatMemory_saveMessages(storage[s],
                                     <<Msg("system", SYSTEM_PROMPT)>>)
                            ELSE storage[s]
                stored   == addMessage(seeded, "user", seq[s] + 1)
                messages == ChatMemory_loadMessages(stored)
            IN  /\ storage' = [storage EXCEPT ![s] = stored]
                /\ req' = [req EXCEPT ![r] =
                             [IdleReq EXCEPT
                                !.pc = "chat", !.session = s, !.message = userMessage,
                                !.loaded = [EmptyState EXCEPT !.messages = before],
                                !.state = [EmptyState EXCEPT !.messages = messages]]]
    /\ seq' = [seq EXCEPT ![s] = @ + 1]
    /\ hist' = [hist EXCEPT ![s] = HistBegin(s)]
    /\ UNCHANGED <<cfg, memory, jobs, clock, lastResp>>

(* the model answered: addMessage('assistant') on the stored list, reload, answer *)
ChatMemory_chatReplied(r) ==
    /\ cfg.variant = "fixed"
    /\ req[r].pc = "chat"
    /\ LET s      == req[r].session
           stored == addMessage(storage[s], "assistant", ChatReply(req[r].state))
           final  == [EmptyState EXCEPT !.messages = ChatMemory_loadMessages(stored)]
       IN  /\ storage' = [storage EXCEPT ![s] = stored]
           /\ lastResp' = ChatResponse(s, final, FALSE, FALSE)
           /\ hist' = [hist EXCEPT ![s] = HistOk(s)]
    /\ req' = [req EXCEPT ![r] = IdleReq]
    /\ UNCHANGED <<cfg, memory, jobs, seq, clock, overlaps>>

(* the model failed: the catch block answers 500 *)
ChatMemory_chatFailed(r) ==
    /\ cfg.variant = "fixed"
    /\ req[r].pc = "chat"
    /\ req' = [req EXCEPT ![r] = IdleReq]
    /\ hist' = [hist EXCEPT ![req[r].session] = Dirty]
    /\ lastResp' = ErrorResponse(req[r].session, "chat")
    /\ UNCHANGED <<cfg, memory, storage, jobs, seq, clock, overlaps>>

(* ChatMemory.handleClearHistory: delete messages *)
ChatMemory_handleClearHistory(s) ==
    /\ cfg.variant = "fixed"
    /\ s \in cfg.sessions
    /\ storage' = [storage EXCEPT ![s] = [@ EXCEPT !.messages = <<>>]]
    /\ hist' = [hist EXCEPT ![s] = HistClear(s)]
    /\ lastResp' = ClearResponse(s)
    /\ UNCHANGED <<cfg, memory, req, jobs, seq, clock, overlaps>>

NextChatMemory ==
    \/ \E r \in Slots, s \in Sessions : ChatMemory_handleChat(r, s)
    \/ \E r \in Slots : ChatMemory_chatReplied(r)
    \/ \E r \in Slots : ChatMemory_chatFailed(r)
    \/ \E s \in Sessions : ChatMemory_handleClearHistory(s)

----------------------------------------------------------------------------
(* WorkflowMemory: loadState, saveState *)

Workflow_loadState(d) ==
    [summary |-> d.summary, messages |-> d.messages,
     workflowStatus |-> d.workflowStatus]

(* put summary, put messages, and put workflowStatus only when it is truthy *)
Workflow_saveState(d, state) ==
    [d EXCEPT !.summary = state.summary,
              !.messages = state.messages,
              !.workflowStatus = IF state.workflowStatus # None
                                 THEN state.workflowStatus ELSE @]

(* new URL(request.url).pathname.split('/').pop() || 'default'.  The worker
   forwards the request it routed, whose pathname is exactly '/api/chat'. *)
ChatPathname == <<"", "api", "chat">>

SessionIdOf(segments) ==
    LET last == segments[Len(segments)]
    IN  IF last = "" THEN "default" ELSE last

(* `summarize-${sessionId}-${Date.now()}` *)
WorkflowId(sessionId, now) == [session |-> sessionId, at |-> now]

RunningStatus(workflowId) ==
    [id |-> Some(workflowId), status |-> "running", completed |-> FALSE]

(* { ...state.workflowStatus, status: 'completed', completedAt } *)
CompletedStatus(workflowStatus) ==
    IF workflowStatus = None
    THEN [id |-> None, status |-> "completed", completed |-> TRUE]
    ELSE [workflowStatus[1] EXCEPT !.status = "completed", !.completed = TRUE]

(* faulty variant: the list is cut where the job's batch ended, that is against
   the list the job loaded *)
applySummary_asLoaded(d, summary) ==
    LET state == Workflow_loadState(d)
        batch == Len(summary.of.text)
    IN  Workflow_saveState(d,
            [summary        |-> Some(summary),
             messages       |-> Slice(state.messages, batch, batch + RECENT_MESSAGE_LIMIT),
             workflowStatus |-> Some(CompletedStatus(state.workflowStatus))])

(* WorkflowMemory.handleWorkflowRequest, /workflow/apply-summary *)
applySummary(d, summary) ==
    LET state == Workflow_loadState(d)
    IN  Workflow_saveState(d,
            [summary        |-> Some(summary),
             messages       |-> SliceFrom(state.messages, 0 - RECENT_MESSAGE_LIMIT),
             workflowStatus |-> Some(CompletedStatus(state.workflowStatus))])

(* WorkflowMemory.handleChat: load, push the user message, save, call the model *)
Workflow_handleChat(r, s) ==
    /\ cfg.variant = "deferred"
    /\ CanBegin(r, s)
    /\ \E userMessage \in cfg.inputs :
         /\ ~WorkerRejects(userMessage)
         /\ LET loaded == Workflow_loadState(storage[s])
                state  == [loaded EXCEPT
                             !.messages = Append(@, Msg("user", seq[s] + 1))]
            IN  /\ storage' = [storage EXCEPT ![s] = Workflow_saveState(@, state)]
                /\ req' = [req EXCEPT ![r] =
                             [IdleReq EXCEPT !.pc = "chat", !.session = s,
                                             !.message = userMessage,
                                             !.loaded = loaded, !.state = state,
                                             !.effects = Written(NoEffects)]]
    /\ seq' = [seq EXCEPT ![s] = @ + 1]
    /\ hist' = [hist EXCEPT ![s] = HistBegin(s)]
    /\ UNCHANGED <<cfg, memory, jobs, clock, lastResp>>

(* the model answered: push the reply, save; at the threshold start
   triggerSummarizationWorkflow, otherwise reload and answer *)
Workflow_chatReplied(r) ==
    /\ cfg.variant = "deferred"
    /\ req[r].pc = "chat"
    /\ LET s      == req[r].session
           state  == [req[r].state EXCEPT
                        !.messages = Append(@, Msg("assistant", PromptReply(req[r].state)))]
           stored == Workflow_saveState(storage[s], state)
       IN  /\ storage' = [storage EXCEPT ![s] = stored]
           /\ IF Len(state.messages) >= SUMMARIZE_THRESHOLD
              THEN /\ req' = [req EXCEPT
                                ![r].pc = "triggering",
                                ![r].state = state,
                                ![r].effects = Written(@),
                                ![r].sessionId = SessionIdOf(ChatPathname),
                                ![r].workflowId =
                                    Some(WorkflowId(SessionIdOf(ChatPathname), clock + 1))]
                   /\ clock' = clock + 1
                   /\ UNCHANGED <<hist, lastResp>>
              ELSE /\ req' = [req EXCEPT ![r] = IdleReq]
                   /\ hist' = [hist EXCEPT ![s] = HistOk(s)]
                   /\ lastResp' = Answer(ChatResponse(s, Workflow_loadState(stored),
                                                      FALSE, FALSE),
                                         Written(req[r].effects))
                   /\ UNCHANGED clock
    /\ UNCHANGED <<cfg, memory, jobs, seq, overlaps>>

(* the model failed: the catch block answers 500 *)
Workflow_chatFailed(r) ==
    /\ cfg.variant = "deferred"
    /\ req[r].pc = "chat"
    /\ req' = [req EXCEPT ![r] = IdleReq]
    /\ hist' = [hist EXCEPT ![req[r].session] = Dirty]
    /\ lastResp' = Answer(ErrorResponse(req[r].session, "chat"), req[r].effects)
    /\ UNCHANGED <<cfg, memory, storage, jobs, seq, clock, overlaps>>

(* env.SUMMARIZATION_WORKFLOW.create accepted: the instance exists and may run *)
Executor_create(r) ==
    /\ cfg.variant = "deferred"
    /\ req[r].pc = "triggering"
    /\ jobs' = Append(jobs, [id        |-> req[r].workflowId[1],
                             sessionId |-> req[r].sessionId,
                             trigger   |-> req[r].session,
                             pc        |-> "created",
                             state     |-> EmptyState,
                             summary   |-> None])
    /\ req' = [req EXCEPT ![r].pc = "created", ![r].effects = Dispatched(@)]
    /\ UNCHANGED <<cfg, memory, storage, seq, clock, hist, lastResp, overlaps>>

(* triggerSummarizationWorkflow after create resolved: put workflowStatus;
   handleChat then reloads and answers *)
triggerSummarizationWorkflow(r) ==
    /\ cfg.variant = "deferred"
    /\ req[r].pc = "created"
    /\ LET s      == req[r].session
           stored == [storage[s] EXCEPT
                        !.workflowStatus = Some(RunningStatus(req[r].workflowId[1]))]
       IN  /\ storage' = [storage EXCEPT ![s] = stored]
           /\ lastResp' = [ChatResponse(s, Workflow_loadState(stored), FALSE, TRUE)
                             EXCEPT !.stage = "triggered",
                                    !.effects = Written(req[r].effects)]
           /\ hist' = [hist EXCEPT ![s] = HistOk(s)]
    /\ req' = [req EXCEPT ![r] = IdleReq]
    /\ UNCHANGED <<cfg, memory, jobs, seq, clock, overlaps>>

(* faulty variant: the rejection of create is not caught in
   triggerSummarizationWorkflow and reaches handleChat's catch block *)
triggerFailed_uncaught(r) ==
    /\ cfg.variant = "deferred"
    /\ req[r].pc = "triggering"
    /\ lastResp' = Answer(ErrorResponse(req[r].session, "failed"),
                          Dispatched(req[r].effects))
    /\ hist' = [hist EXCEPT ![req[r].session] = Dirty]
    /\ req' = [req EXCEPT ![r] = IdleReq]
    /\ UNCHANGED <<cfg, memory, storage, jobs, seq, clock, overlaps>>

(* create rejected: triggerSummarizationWorkflow catches it and returns
   { status: 'failed' }; handleChat reloads and answers *)
triggerFailed(r) ==
    /\ cfg.variant = "deferred"
    /\ req[r].pc = "triggering"
    /\ LET s == req[r].session
       IN  /\ lastResp' = [ChatResponse(s, Workflow_loadState(storage[s]), FALSE, TRUE)
                             EXCEPT !.stage = "failed",
                                    !.effects = Dispatched(req[r].effects)]
           /\ hist' = [hist EXCEPT ![s] = HistOk(s)]
    /\ req' = [req EXCEPT ![r] = IdleReq]
    /\ UNCHANGED <<cfg, memory, storage, jobs, seq, clock, overlaps>>

(* WorkflowMemory.handleClearMemory: storage.deleteAll *)
Workflow_handleClearMemory(s) ==
    /\ cfg.variant = "deferred"
    /\ s \in cfg.sessions
    /\ storage' = [storage EXCEPT ![s] = EmptyStorage]
    /\ hist' = [hist EXCEPT ![s] = HistClear(s)]
    /\ lastResp' = ClearResponse(s)
    /\ UNCHANGED <<cfg, memory, req, jobs, seq, clock, overlaps>>

----------------------------------------------------------------------------
(* SummarizationWorkflow.run *)

JobIds == 1..Len(jobs)

(* steps get-durable-object, load-state, check-needs-summarization *)
Run_loadState(j) ==
    /\ j \in JobIds
    /\ jobs[j].pc = "created"
    /\ LET state == Workflow_loadState(storage[jobs[j].sessionId])
       IN  jobs' = [jobs EXCEPT ![j] =
                      IF Len(state.messages) >= SUMMARIZE_THRESHOLD
                      THEN [@ EXCEPT !.pc = "generating", !.state = state]
                      ELSE [@ EXCEPT !.pc = "not-needed"]]
    /\ UNCHANGED <<cfg, memory, storage, req, seq, clock, hist, lastResp, overlaps>>

(* step generate-summary: the model answered *)
Run_generateSummary(j) ==
    /\ j \in JobIds
    /\ jobs[j].pc = "generating"
    /\ LET state  == jobs[j].state
           prompt == SummaryPrompt(Slice(state.messages, 0, 0 - RECENT_MESSAGE_LIMIT),
                                   state.summary)
       IN  jobs' = [jobs EXCEPT ![j] = [@ EXCEPT !.pc = "applying", !.state = EmptyState,
                                                 !.summary = Some(SummaryResponse(prompt))]]
    /\ UNCHANGED <<cfg, memory, storage, req, seq, clock, hist, lastResp, overlaps>>

(* step generate-summary: the model failed on every retry, the run ends in error *)
Run_generateFailed(j) ==
    /\ j \in JobIds
    /\ jobs[j].pc = "generating"
    /\ jobs' = [jobs EXCEPT ![j] = [@ EXCEPT !.pc = "errored", !.state = EmptyState]]
    /\ UNCHANGED <<cfg, memory, storage, req, seq, clock, hist, lastResp, overlaps>>

(* step apply-summarization: POST /workflow/apply-summary to the Durable Object *)
Run_applySummarization(j) ==
    /\ j \in JobIds
    /\ jobs[j].pc = "applying"
    /\ storage' = [storage EXCEPT ![jobs[j].sessionId] = applySummary(@, jobs[j].summary[1])]
    /\ jobs' = [jobs EXCEPT ![j].pc = "completed"]
    /\ UNCHANGED <<cfg, memory, req, seq, clock, hist, lastResp, overlaps>>

(* step apply-summarization run again: the executor did not record the step's
   result (the response was lost, or the instance restarted) and retries it *)
Run_applyRedelivered(j) ==
    /\ cfg.redelivery
    /\ j \in JobIds
    /\ jobs[j].pc = "completed"
    /\ storage' = [storage EXCEPT ![jobs[j].sessionId] = applySummary(@, jobs[j].summary[1])]
    /\ jobs' = [jobs EXCEPT ![j].pc = "redelivered"]
    /\ UNCHANGED <<cfg, memory, req, seq, clock, hist, lastResp, overlaps>>

NextWorkflow ==
    \/ \E r \in Slots, s \in Sessions : Workflow_handleChat(r, s)
    \/ \E r \in Slots : Workflow_chatReplied(r)
    \/ \E r \in Slots : Workflow_chatFailed(r)
    \/ \E r \in Slots : Executor_create(r)
    \/ \E r \in Slots : triggerSummarizationWorkflow(r)
    \/ \E r \in Slots : triggerFailed(r)
    \/ \E s \in Sessions : Workflow_handleClearMemory(s)
    \/ \E j \in JobIds : Run_loadState(j)
    \/ \E j \in JobIds : Run_generateSummary(j)
    \/ \E j \in JobIds : Run_generateFailed(j)
    \/ \E j \in JobIds : Run_applySummarization(j)
    \/ \E j \in JobIds : Run_applyRedelivered(j)

----------------------------------------------------------------------------

(* The workers' fetch, POST /api/chat: a message that fails validation is
   answered 400 and never reaches the Durable Object *)
Worker_rejected(s, userMessage) ==
    /\ cfg.variant \in {"fixed", "inline", "deferred"}
    /\ s \in cfg.sessions
    /\ userMessage \in cfg.inputs
    /\ WorkerRejects(userMessage)
    /\ lastResp' = ValidationResponse(s)
    /\ UNCHANGED <<cfg, memory, storage, req, jobs, seq, clock, overlaps, hist>>

----------------------------------------------------------------------------
(* ChatSession (src/index.js): the worker forwards every body, fetch validates *)

(* fetch: a falsy message is answered 400 *)
Session_rejected(s, userMessage) ==
    /\ cfg.variant = "basic"
    /\ s \in cfg.sessions
    /\ userMessage \in cfg.inputs
    /\ SessionRejects(userMessage)
    /\ lastResp' = ValidationResponse(s)
    /\ UNCHANGED <<cfg, memory, storage, req, jobs, seq, clock, overlaps, hist>>

(* fetch: get 'messages' and take it as this.messages if there is one, push the
   user message, call the model *)
Session_fetch(r, s) ==
    /\ cfg.variant = "basic"
    /\ CanBegin(r, s)
    /\ \E userMessage \in cfg.inputs :
         /\ ~SessionRejects(userMessage)
         /\ LET stored   == storage[s].messages
                messages == IF stored # <<>> THEN stored ELSE memory[s]
            IN  /\ memory' = [memory EXCEPT
                                ![s] = Append(messages, Msg("user", seq[s] + 1))]
                /\ req' = [req EXCEPT ![r] =
                             [IdleReq EXCEPT
                                !.pc = "chat", !.session = s, !.message = userMessage,
                                !.loaded = [EmptyState EXCEPT !.messages = stored],
                                !.state = [EmptyState EXCEPT !.messages = memory'[s]]]]
    /\ seq' = [seq EXCEPT ![s] = @ + 1]
    /\ hist' = [hist EXCEPT ![s] = HistBegin(s)]
    /\ UNCHANGED <<cfg, storage, jobs, clock, lastResp>>

(* the model answered: push the reply onto this.messages as it is now, put, answer *)
Session_replied(r) ==
    /\ cfg.variant = "basic"
    /\ req[r].pc = "chat"
    /\ LET s        == req[r].session
           messages == Append(memory[s], Msg("assistant", ChatReply(req[r].state)))
       IN  /\ memory' = [memory EXCEPT ![s] = messages]
           /\ storage' = [storage EXCEPT ![s] = [@ EXCEPT !.messages = messages]]
           /\ lastResp' = ChatResponse(s, [EmptyState EXCEPT !.messages = messages],
                                        FALSE, FALSE)
           /\ hist' = [hist EXCEPT ![s] = HistOk(s)]
    /\ req' = [req EXCEPT ![r] = IdleReq]
    /\ UNCHANGED <<cfg, jobs, seq, clock, overlaps>>

(* the model failed: the catch block answers 500, this.messages keeps the push *)
Session_failed(r) ==
    /\ cfg.variant = "basic"
    /\ req[r].pc = "chat"
    /\ req' = [req EXCEPT ![r] = IdleReq]
    /\ hist' = [hist EXCEPT ![req[r].session] = Dirty]
    /\ lastResp' = ErrorResponse(req[r].session, "chat")
    /\ UNCHANGED <<cfg, memory, storage, jobs, seq, clock, overlaps>>

(* the idle instance is evicted; the constructor of the next one sets
   this.messages = [] *)
Session_evicted(s) ==
    /\ cfg.variant = "basic"
    /\ s \in cfg.sessions
    /\ Active(s) = {}
    /\ memory[s] # <<>>
    /\ memory' = [memory EXCEPT ![s] = <<>>]
    /\ UNCHANGED <<cfg, storage, req, jobs, seq, clock, overlaps, hist, lastResp>>

NextSession ==
    \/ \E s \in Sessions, userMessage \in MessageValues : Session_rejected(s, userMessage)
    \/ \E r \in Slots, s \in Sessions : Session_fetch(r, s)
    \/ \E r \in Slots : Session_replied(r)
    \/ \E r \in Slots : Session_failed(r)
    \/ \E s \in Sessions : Session_evicted(s)

----------------------------------------------------------------------------

(* A configuration: the worker deployed, the sessions its clients address, how
   many requests may be in flight and be received, and what the environment
   does: the message values clients send, whether a storage write may fail,
   whether the executor may deliver apply-summary a second time. *)
Config(variant, sessions, inflight, turns) ==
    [variant |-> variant, sessions |-> sessions,
     maxInflight |-> inflight, maxOverlap |-> MaxOverlap, maxTurns |-> turns,
     inputs |-> {Text}, faults |-> FALSE, redelivery |-> FALSE]

WithInputs(config) == [config EXCEPT !.inputs = MessageValues]
WithFaults(config) == [config EXCEPT !.faults = TRUE]
WithRedelivery(config) == [config EXCEPT !.redelivery = TRUE]

(* a single request begins while another one is in flight *)
Racing(config) == [config EXCEPT !.maxOverlap = 1]

(* the number of successful turns after which a fresh session first reaches
   SUMMARIZE_THRESHOLD messages *)
FirstPassTurns == SUMMARIZE_THRESHOLD \div 2

InitState ==
    /\ storage = [s \in Sessions |-> EmptyStorage]
    /\ memory = [s \in Sessions |-> <<>>]
    /\ req = [r \in Slots |-> IdleReq]
    /\ jobs = <<>>
    /\ seq = [s \in Sessions |-> 0]
    /\ clock = 0
    /\ overlaps = 0
    /\ hist = [s \in Sessions |-> Fresh]
    /\ lastResp = NoResp

(* Each variant with requests overlapping within one object (the inline one
   for a turn more, so that a request can arrive during a summarization); the
   deferred variant one request at a time past its second dispatch; the
   inline variant one request at a time through the twelve turns of Scenario A;
   each worker with clients that send every kind of message value; and the
   inline variant with storage writes that may fail; and the deferred variant
   with an executor that may deliver apply-summary twice.
   The session named "chat" is the one a path-derived session key addresses. *)
Init ==
    /\ cfg \in {Config("fixed", {"alice"}, MaxInflight, MaxFixedTurns),
                Config("inline", {"alice"}, MaxInflight, MaxTurns + 1),
                Config("deferred", {"alice"}, MaxInflight, MaxTurns),
                Config("deferred", {"chat"}, MaxInflight, MaxTurns),
                Config("deferred", {"alice"}, 1, MaxTurns + 1),
                Config("deferred", {"chat"}, 1, MaxTurns + 1),
                Config("inline", {"alice"}, 1, ScenarioTurns),
                Config("fixed", {"alice"}, 1, ScenarioTurns),
                WithInputs(Config("basic", {"alice"}, MaxInflight, MaxFixedTurns)),
                WithInputs(Config("fixed", {"alice"}, 1, MaxFixedTurns)),
                WithInputs(Config("inline", {"alice"}, 1, MaxFixedTurns)),
                WithInputs(Config("deferred", {"alice"}, 1, MaxFixedTurns)),
                WithFaults(Config("inline", {"alice"}, 1, MaxTurns + 1)),
                WithRedelivery(Config("deferred", {"chat"}, 1, MaxTurns + 1)),
                Racing(Config("deferred", {"chat"}, 2, FirstPassTurns + 1))}
    /\ InitState

Next ==
    \/ NextChatMemory
    \/ NextRolling
    \/ NextWorkflow
    \/ NextSession
    \/ \E s \in Sessions, userMessage \in MessageValues : Worker_rejected(s, userMessage)

Spec == Init /\ [][Next]_vars

(* What the platform keeps running once it has started: a handler in flight
   resumes when the call it awaits settles, and a workflow instance runs its
   next step.  Clients need not send another request, and the executor need
   not deliver twice. *)
Resumes ==
    \/ \E r \in Slots :
          \/ ChatMemory_chatReplied(r) \/ ChatMemory_chatFailed(r)
          \/ Rolling_chatReplied(r) \/ Rolling_chatFailed(r)
          \/ Rolling_summaryGenerated(r) \/ Rolling_summaryFailed(r)
          \/ Workflow_chatReplied(r) \/ Workflow_chatFailed(r)
          \/ Executor_create(r) \/ triggerFailed(r)
          \/ triggerSummarizationWorkflow(r)
          \/ Session_replied(r) \/ Session_failed(r)
    \/ \E j \in JobIds :
          \/ Run_loadState(j)
          \/ Run_generateSummary(j) \/ Run_generateFailed(j)
          \/ Run_applySummarization(j)

SpecFair == Spec /\ WF_vars(Resumes)

----------------------------------------------------------------------------
(* Steps of a behaviour the properties speak about *)

(* request r leaves position pc and returns its response in this step *)
Returns(r, pc) == req[r].pc = pc /\ req'[r].pc = "idle"

(* job j leaves position from for position to in this step *)
Moves(j, from, to) == j \in JobIds /\ jobs[j].pc = from /\ jobs'[j].pc = to

(* after is the last RECENT_MESSAGE_LIMIT entries of before, in order *)
IsRecentSuffixOf(after, before) ==
    /\ Len(after) = RECENT_MESSAGE_LIMIT
    /\ \A i \in 1..RECENT_MESSAGE_LIMIT :
          after[i] = before[Len(before) - RECENT_MESSAGE_LIMIT + i]

Quiet == InFlight = {}

IsRunning(workflowStatus) ==
    workflowStatus # None /\ workflowStatus[1].status = "running"

----------------------------------------------------------------------------
(* C1: pruning is suffix-preserving in both summarizing variants.  Whenever a
   summarization pass is applied to a list [m1..mN] with N >= RECENT_MESSAGE_LIMIT
   (the list saved by the turn that performSummarizationIfNeeded works on; the
   stored list apply-summary loads), the stored list afterwards is exactly
   [m_{N-7}..mN], in order. *)
C1_PruningKeepsSuffix ==
    [][ /\ \A r \in Slots :
             (cfg.variant = "inline" /\ Returns(r, "summarizing") /\ lastResp'.wasSummarized
                /\ Len(req[r].state.messages) >= RECENT_MESSAGE_LIMIT)
             => IsRecentSuffixOf(storage'[req[r].session].messages, req[r].state.messages)
        /\ \A j \in JobIds :
             (Moves(j, "applying", "completed")
                /\ Len(storage[jobs[j].sessionId].messages) >= RECENT_MESSAGE_LIMIT)
             => IsRecentSuffixOf(storage'[jobs[j].sessionId].messages,
                                 storage[jobs[j].sessionId].messages)
      ]_vars

(* a deferred pass has been applied and left the recent window stored *)
C1_Witness ==
    \E j \in JobIds :
        /\ jobs[j].pc = "completed"
        /\ Len(storage[jobs[j].sessionId].messages) = RECENT_MESSAGE_LIMIT
        /\ storage[jobs[j].sessionId].summary = jobs[j].summary

(* C2: immediately after any completed chat turn that triggered summarization
   (summarized inline, or submitted the workflow job), the session holds at
   most SUMMARIZE_THRESHOLD + 1 messages. *)
C2_BoundAfterTrigger ==
    (lastResp.kind = "chat" /\ lastResp.status = 200
        /\ (lastResp.wasSummarized
              \/ (lastResp.workflowTriggered /\ lastResp.stage = "triggered")))
    => lastResp.recentMessages <= SUMMARIZE_THRESHOLD + 1

(* C3: Scenario A.  In a fresh session of the inline variant, with every
   inference call succeeding, the 12th sequential turn returns wasSummarized,
   leaves exactly 8 stored messages and a summary. *)
C3_ScenarioA ==
    (cfg.variant = "inline" /\ Quiet /\ hist["alice"].clean /\ hist["alice"].ok = 12)
    => /\ lastResp.kind = "chat" /\ lastResp.status = 200
       /\ lastResp.wasSummarized
       /\ lastResp.recentMessages = 8
       /\ Len(storage["alice"].messages) = 8
       /\ storage["alice"].summary # None
       /\ lastResp.hasSummary

C3_Witness ==
    cfg.variant = "inline" /\ Quiet /\ hist["alice"].clean /\ hist["alice"].ok = 12

(* C4 as claimed: after 11 sequential successful turns of a fresh inline session
   the stored list holds 22 messages. *)
C4_Original ==
    (cfg.variant = "inline" /\ Quiet /\ hist["alice"].clean /\ hist["alice"].ok = 11)
    => Len(storage["alice"].messages) = 22

(* C4 as amended: after 11 sequential successful turns of a fresh inline session
   the stored list holds 10 messages and a summary is stored (turns 6, 8 and 10
   summarized and pruned to 8); the 12th turn evaluates the policy on 12
   messages. *)
C4_Amended ==
    /\ (cfg.variant = "inline" /\ Quiet /\ hist["alice"].clean /\ hist["alice"].ok = 11)
       => /\ Len(storage["alice"].messages) = 10
          /\ storage["alice"].summary # None
    /\ \A r \in Slots :
         (cfg.variant = "inline" /\ hist["alice"].clean /\ hist["alice"].ok = 11
            /\ req[r].pc = "summarizing")
         => Len(req[r].state.messages) = 12

C4_Witness ==
    /\ cfg.variant = "inline" /\ Quiet
    /\ hist["alice"].clean /\ hist["alice"].ok = 11
    /\ Len(storage["alice"].messages) = 10

(* C5: Scenario D.  When the main chat call fails, the turn fails and the
   persisted summary and messages equal what the turn loaded: the user message
   is not left stored without a reply. *)
C5_FailedTurnLeavesNoTrace ==
    [][ \A r \in Slots :
          (Returns(r, "chat") /\ lastResp'.status = 500 /\ lastResp'.stage = "chat")
          => /\ storage'[req[r].session].summary = req[r].loaded.summary
             /\ storage'[req[r].session].messages = req[r].loaded.messages
      ]_vars

(* C6: inline variant.  A turn whose main chat call succeeded returns success
   with the reply, also when the Summarizer's call fails (wasSummarized false). *)
C6_SummaryFailureKeepsReply ==
    (cfg.variant = "inline" /\ lastResp.kind = "chat" /\ lastResp.chatOk
        /\ lastResp.stage # "persist")
    => lastResp.status = 200

(* C7: a failed summarization attempt (the Summarizer's inference call fails,
   inline or in the workflow run) changes neither the stored summary nor the
   stored messages of any session. *)
C7_FailedSummaryChangesNothing ==
    [][ /\ \A r \in Slots :
             (Returns(r, "summarizing") /\ lastResp'.status = 500
                /\ lastResp'.stage = "summary")
             => \A s \in Sessions : /\ storage'[s].summary = storage[s].summary
                                    /\ storage'[s].messages = storage[s].messages
        /\ \A j \in JobIds :
             Moves(j, "generating", "errored")
             => \A s \in Sessions : /\ storage'[s].summary = storage[s].summary
                                    /\ storage'[s].messages = storage[s].messages
      ]_vars

(* an inline turn has ended in a Summarizer failure *)
C7_Witness ==
    lastResp.kind = "chat" /\ lastResp.stage = "summary" /\ lastResp.status = 500

(* C8: dispatch idempotence.  While the session's workflowStatus is running, a
   summarization trigger submits no new job. *)
C8_NoDispatchWhileRunning ==
    [][ \A r \in Slots :
          (req[r].pc = "triggering" /\ req'[r].pc = "created")
          => ~IsRunning(storage[req[r].session].workflowStatus)
      ]_vars

(* C9: Scenario E.  apply-summary on behalf of a job whose id is not the id in
   the object's workflowStatus leaves summary, messages and workflowStatus
   unchanged. *)
C9_StaleReconcileDropped ==
    [][ \A j \in JobIds :
          (/\ Moves(j, "applying", "completed")
           /\ storage[jobs[j].sessionId].workflowStatus # None
           /\ storage[jobs[j].sessionId].workflowStatus[1].id # Some(jobs[j].id))
          => storage'[jobs[j].sessionId] = storage[jobs[j].sessionId]
      ]_vars

(* C10: the session key in a job's payload is the session whose chat turn
   triggered the job. *)
C10_JobBoundToSession ==
    \A j \in JobIds : jobs[j].sessionId = jobs[j].trigger

(* C11: the write a chat turn performs after its inference call discards no
   change made to the session meanwhile.  The write adds the reply to the list
   as it is stored when the call returns, and leaves the stored summary and
   workflowStatus as they are at that moment. *)
C11_PostCallWriteKeepsChanges ==
    [][ \A r \in Slots :
          (req[r].pc = "chat" /\ req'[r].pc # "chat"
             /\ storage'[req[r].session] # storage[req[r].session])
          => LET s     == req[r].session
                 added == Append(storage[s].messages,
                                 Msg("assistant", ChatReply(req[r].state)))
             IN  /\ storage'[s].summary = storage[s].summary
                 /\ storage'[s].workflowStatus = storage[s].workflowStatus
                 /\ storage'[s].messages =
                       IF cfg.variant = "fixed" THEN pruneMessages(added) ELSE added
      ]_vars

(* C12: reconcile truncates against the list as it is at reconcile time.  When
   apply-summary runs, the stored list afterwards is the last
   RECENT_MESSAGE_LIMIT entries (all of them, if fewer) of the list stored just
   before, whatever turns have appended since the job loaded its state. *)
C12_ReconcileCutsLatestList ==
    [][ \A j \in JobIds :
          Moves(j, "applying", "completed")
          => LET before == storage[jobs[j].sessionId].messages
                 after  == storage'[jobs[j].sessionId].messages
                 n      == Min(Len(before), RECENT_MESSAGE_LIMIT)
             IN  /\ Len(after) = n
                 /\ \A i \in 1..n : after[i] = before[Len(before) - n + i]
      ]_vars

(* a job's summary has been applied after a turn appended to the list the job
   had loaded: the stored window starts past the message that followed the batch *)
C12_Witness ==
    \E j \in JobIds :
        /\ jobs[j].pc = "completed"
        /\ storage[jobs[j].sessionId].summary = jobs[j].summary
        /\ Len(storage[jobs[j].sessionId].messages) = RECENT_MESSAGE_LIMIT
        /\ LET text == jobs[j].summary[1].of.text
           IN  storage[jobs[j].sessionId].messages[1].content > text[Len(text)][2] + 1

(* C13: reconcile is idempotent under duplicate delivery.  A second delivery of
   a job's apply-summary call, whatever turns came between the two, leaves the
   session's summary, messages and workflowStatus as they are. *)
C13_DuplicateReconcileChangesNothing ==
    [][ \A j \in JobIds :
          Moves(j, "completed", "redelivered")
          => storage'[jobs[j].sessionId] = storage[jobs[j].sessionId]
      ]_vars

(* a run dispatched by session s has ended without applying a summary while s
   still records that job as running *)
StaleRunning(s) ==
    \E j \in JobIds :
        /\ jobs[j].trigger = s
        /\ jobs[j].pc \in {"errored", "not-needed"}
        /\ storage[s].workflowStatus = Some(RunningStatus(jobs[j].id))

(* C14: whenever the executor's run for a dispatched job ends without applying
   a summary (the Summarizer call failed, or the run found fewer than 12
   messages), the workflowStatus of the session is eventually moved off
   'running'. *)
C14_FinishedJobLeavesRunning ==
    \A s \in Sessions :
        StaleRunning(s) ~> ~IsRunning(storage[s].workflowStatus)

(* C15: every summary applied to a session was produced from the summary it
   replaces.  When a summarization is applied, inline or by apply-summary, the
   existingSummary its prompt was built from is the summary stored at that
   moment (none only when none is stored). *)
C15_AppliedSummaryMergesStored ==
    [][ /\ \A r \in Slots :
             (Returns(r, "summarizing") /\ lastResp'.wasSummarized)
             => storage'[req[r].session].summary[1].of.existing
                    = storage[req[r].session].summary
        /\ \A j \in JobIds :
             Moves(j, "applying", "completed")
             => jobs[j].summary[1].of.existing = storage[jobs[j].sessionId].summary
      ]_vars

(* the prompt holds the existing summary whole under the merge template, or
   none under the create template, and 'ROLE: content' of every non-system
   message of the batch, in order *)
PromptCarries(prompt, batch, existing) ==
    LET kept == SelectSeq(batch, NotSystem)
    IN  /\ prompt.template = (IF existing = None THEN "create" ELSE "merge")
        /\ prompt.existing = existing
        /\ Len(prompt.text) = Len(kept)
        /\ \A i \in 1..Len(kept) :
              prompt.text[i] = <<ToUpperCase(kept[i].role), kept[i].content>>

(* the messages before the last RECENT_MESSAGE_LIMIT of a list *)
BatchOf(messages) == SubSeq(messages, 1, Len(messages) - RECENT_MESSAGE_LIMIT)

(* C16: Scenario B, the merge template.  The prompt of every summarization,
   inline or in the workflow run, contains the whole existing summary and the
   rendered text of every non-system message of the batch in order when a
   summary exists, and is the create template over the rendered batch alone
   when none exists. *)
C16_PromptMergesExistingSummary ==
    [][ /\ \A r \in Slots :
             (Returns(r, "summarizing") /\ lastResp'.wasSummarized)
             => PromptCarries(storage'[req[r].session].summary[1].of,
                              BatchOf(req[r].state.messages), req[r].state.summary)
        /\ \A j \in JobIds :
             Moves(j, "generating", "applying")
             => PromptCarries(jobs'[j].summary[1].of,
                              BatchOf(jobs[j].state.messages), jobs[j].state.summary)
      ]_vars

(* Scenario B: a second summarization has merged into the first summary *)
C16_Witness ==
    /\ cfg.variant = "inline"
    /\ lastResp.wasSummarized
    /\ storage["alice"].summary # None
    /\ storage["alice"].summary[1].of.template = "merge"
    /\ storage["alice"].summary[1].of.existing[1].of.template = "create"
    /\ Len(storage["alice"].summary[1].of.text) = SUMMARIZE_THRESHOLD - RECENT_MESSAGE_LIMIT

(* C17: Scenario C.  A chat request whose message is the empty string, missing
   or not a string is answered with a validation error before any state
   mutation and any inference call: no such request is ever in a handler past
   validation, and a validation error leaves storage, memory and the requests
   in flight as they were. *)
C17_InvalidMessageRejected ==
    [][ /\ \A r \in Slots :
             (req[r].pc = "idle" /\ req'[r].pc # "idle")
             => (req'[r].message.type = "string" /\ req'[r].message.truthy)
        /\ (lastResp'.status = 400 /\ lastResp' # lastResp)
             => (storage' = storage /\ memory' = memory /\ req' = req /\ jobs' = jobs)
      ]_vars

(* C18: clear is idempotent.  Every clear, a second one in a row included,
   answers 200, and a load of the session right after it yields the empty
   state: no summary, no messages, no workflowStatus. *)
C18_ClearIsIdempotent ==
    [][ \A s \in Sessions :
          (lastResp'.kind = "clear" /\ lastResp'.session = s /\ lastResp' # lastResp)
          => /\ lastResp'.status = 200
             /\ Workflow_loadState(storage'[s]) = EmptyState
      ]_vars

(* a session that had turns has been cleared twice in a row *)
C18_Witness ==
    /\ lastResp.kind = "clear" /\ lastResp.again /\ lastResp.status = 200
    /\ seq[lastResp.session] > 0
    /\ Quiet
    /\ Workflow_loadState(storage[lastResp.session]) = EmptyState

(* C19: the merged summary and the pruned list are persisted as one unit.  When
   a storage write fails while a summarization is being saved, the store holds
   either the old summary with the unpruned list or the new summary with the
   pruned list, never a mix. *)
C19_SummaryAndPruningAsOneUnit ==
    [][ \A r \in Slots :
          (Returns(r, "summarizing") /\ lastResp'.stage = "persist")
          => LET s == req[r].session
             IN  (storage'[s].summary # storage[s].summary)
                    <=> (storage'[s].messages # storage[s].messages)
      ]_vars

(* C20: when the storage write that follows a successful main inference call
   fails, the turn still answers with the reply, not with an error. *)
C20_ReplySurvivesStoreFailure ==
    (lastResp.kind = "chat" /\ lastResp.chatOk /\ lastResp.stage = "persist")
    => lastResp.status = 200

(* prompt is the system instruction, then the summary block exactly when the
   state has a summary, then the non-system messages of stored, one entry
   each, in order, with the fields role and content only *)
IsPromptOf(prompt, state, stored) ==
    LET kept   == SelectSeq(stored, NotSystem)
        offset == IF state.summary = None THEN 1 ELSE 2
    IN  /\ Len(prompt) = offset + Len(kept)
        /\ prompt[1] = Msg("system", SYSTEM_PROMPT)
        /\ state.summary # None
             => /\ prompt[2].role = "system"
                /\ prompt[2].content = ContextBlock(state.summary[1])
        /\ \A i \in 1..Len(kept) :
              /\ DOMAIN prompt[offset + i] = {"role", "content"}
              /\ prompt[offset + i].role = kept[i].role
              /\ prompt[offset + i].content = kept[i].content

(* C21: prompt assembly.  The prompt a summarizing variant sends on a chat turn
   is the fixed system instruction, then, if and only if the loaded summary is
   non-null, one system block containing the summary, then every non-system
   message of the list the turn has just stored, in stored order, none omitted
   or duplicated, with only role and content. *)
C21_PromptAssembly ==
    [][ \A r \in Slots :
          (req[r].pc = "idle" /\ req'[r].pc = "chat"
             /\ cfg.variant \in {"inline", "deferred"})
          => IsPromptOf(buildMessagesForAI(req'[r].state),
                        Rolling_loadState(storage'[req'[r].session]),
                        storage'[req'[r].session].messages)
      ]_vars

(* a turn is waiting for the reply to a prompt that carries a summary *)
C21_Witness ==
    \E r \in Slots :
       /\ req[r].pc = "chat"
       /\ cfg.variant = "inline"
       /\ req[r].state.summary # None
       /\ Len(buildMessagesForAI(req[r].state)) = 2 + Len(req[r].state.messages)
       /\ Len(req[r].state.messages) > 1

(* C22: summarization never runs on a batch smaller than the minimum.
   Whenever a turn goes on to summarize or to dispatch, and whenever the
   workflow run goes on to its generate step, the list minus the last
   RECENT_MESSAGE_LIMIT entries holds at least MIN_BATCH messages, and so does
   the conversation text of every summary produced; a turn whose list gives a
   smaller batch answers without summarizing or dispatching and leaves stored
   the summary it loaded and the list it built. *)
C22_NoSmallBatch ==
    [][ /\ \A r \in Slots :
             /\ (req[r].pc = "chat" /\ req'[r].pc \in {"summarizing", "triggering"})
                  => Len(BatchOf(req'[r].state.messages)) >= MIN_BATCH
             /\ (Returns(r, "summarizing") /\ lastResp'.wasSummarized)
                  => Len(storage'[req[r].session].summary[1].of.text) >= MIN_BATCH
             /\ (Returns(r, "chat") /\ cfg.variant \in {"inline", "deferred"}
                   /\ lastResp'.status = 200
                   /\ Len(req[r].state.messages) + 1 - RECENT_MESSAGE_LIMIT < MIN_BATCH)
                  => /\ ~lastResp'.wasSummarized
                     /\ ~lastResp'.workflowTriggered
                     /\ jobs' = jobs
                     /\ storage'[req[r].session].summary = req[r].state.summary
                     /\ storage'[req[r].session].messages =
                           Append(req[r].state.messages,
                                  Msg("assistant", PromptReply(req[r].state)))
        /\ \A j \in JobIds :
             /\ Moves(j, "created", "generating")
                  => Len(BatchOf(jobs'[j].state.messages)) >= MIN_BATCH
             /\ Moves(j, "generating", "applying")
                  => Len(jobs'[j].summary[1].of.text) >= MIN_BATCH
      ]_vars

(* a turn has left a list of ten messages unsummarized after an earlier pass *)
C22_Witness ==
    /\ cfg.variant = "inline"
    /\ Quiet
    /\ lastResp.kind = "chat"
    /\ lastResp.status = 200
    /\ ~lastResp.wasSummarized
    /\ lastResp.hasSummary
    /\ lastResp.recentMessages = RECENT_MESSAGE_LIMIT + 2
    /\ Len(storage["alice"].messages) = RECENT_MESSAGE_LIMIT + 2

(* a chat turn of a summarizing variant has been answered past validation *)
TurnAnswered ==
    /\ cfg.variant \in {"inline", "deferred"}
    /\ lastResp.kind = "chat"
    /\ lastResp.status # 400

(* C23: per-turn side-effect bound.  A single chat turn performs one or two
   persistence writes of the session state, at most one direct Summarizer call
   and at most one background-job dispatch. *)
C23_Original ==
    TurnAnswered
    => /\ lastResp.effects.writes \in {1, 2}
       /\ lastResp.effects.calls <= 1
       /\ lastResp.effects.dispatches <= 1

(* C23 as the code has it: a chat turn performs one to three persistence
   writes of the session state, the third only in a turn that has called the
   Summarizer or dispatched a job; it calls the Summarizer at most once,
   dispatches at most once, and never does both. *)
C23_Amended ==
    TurnAnswered
    => /\ lastResp.effects.writes \in {1, 2, 3}
       /\ lastResp.effects.writes = 3
            => lastResp.effects.calls + lastResp.effects.dispatches = 1
       /\ lastResp.effects.calls + lastResp.effects.dispatches <= 1

(* a turn has saved three times: user message, reply, summarized state *)
C23_Witness ==
    /\ TurnAnswered
    /\ lastResp.wasSummarized
    /\ lastResp.effects = [writes |-> 3, calls |-> 1, dispatches |-> 0]

(* the executor did not work, or a turn did not succeed: a dispatch was
   rejected, a run ended in error, or a turn was answered with an error *)
ExecutorOrTurnFailed ==
    \/ lastResp.stage = "failed"
    \/ lastResp.status = 500
    \/ \E j \in JobIds : jobs[j].pc = "errored"

(* C24: in the deferred variant, with turns one at a time, every session whose
   stored list reaches SUMMARIZE_THRESHOLD messages eventually holds at most
   RECENT_MESSAGE_LIMIT messages, unless the executor or a turn has failed. *)
C24_EventuallySummarized ==
    \A s \in Sessions :
        (/\ cfg.variant = "deferred"
         /\ cfg.maxInflight = 1
         /\ Len(storage[s].messages) >= SUMMARIZE_THRESHOLD)
        ~> (\/ Len(storage[s].messages) <= RECENT_MESSAGE_LIMIT
            \/ ExecutorOrTurnFailed)

(* C25: a deferred turn never waits for the summarization result.  A turn that
   has reached its dispatch can always take its next step and be answered,
   whatever the executor has or has not done with any job; its answer is 200
   with the reply, also when the creation of the job was rejected. *)
C25_TurnDoesNotWaitForJob ==
    /\ [](\A r \in Slots :
            /\ req[r].pc = "triggering"
                 => ENABLED (Executor_create(r) \/ triggerFailed(r))
            /\ req[r].pc = "created"
                 => ENABLED triggerSummarizationWorkflow(r))
    /\ [][ \A r \in Slots :
             (req[r].pc \in {"triggering", "created"} /\ req'[r].pc # req[r].pc)
             => \/ req[r].pc = "triggering" /\ req'[r].pc = "created"
                \/ /\ req'[r].pc = "idle"
                   /\ lastResp'.status = 200
                   /\ lastResp'.chatOk
                   /\ lastResp'.session = req[r].session
                   /\ lastResp'.workflowTriggered
         ]_vars

(* a turn has been answered after its dispatch while the job it created has
   not run a single step *)
C25_Witness ==
    /\ lastResp.stage = "triggered"
    /\ lastResp.status = 200
    /\ Quiet
    /\ jobs # <<>>
    /\ jobs[Len(jobs)].pc = "created"
    /\ storage[lastResp.session].workflowStatus = Some(RunningStatus(jobs[Len(jobs)].id))

(* a is the last Len(a) entries of b, in order *)
IsSuffixOf(a, b) ==
    /\ Len(a) <= Len(b)
    /\ \A i \in 1..Len(a) : a[i] = b[Len(b) - Len(a) + i]

(* C26: the fixed window of ChatMemory.  After every addMessage the stored
   history has at most MAX_MESSAGES entries, its first entry is the system
   prompt inserted on the first turn and its only system entry, and its other
   entries are the most recent ones, in their original order: the last
   MAX_MESSAGES - 1 of the ones stored before followed by the new one, or all
   of them when they are fewer. *)
C26_FixedWindow ==
    [][ \A s \in Sessions :
          (cfg.variant = "fixed" /\ storage'[s].messages # storage[s].messages
             /\ storage'[s].messages # <<>>)
          => LET before == SelectSeq(storage[s].messages, NotSystem)
                 after  == SelectSeq(storage'[s].messages, NotSystem)
             IN  /\ Len(storage'[s].messages) <= MAX_MESSAGES
                 /\ storage'[s].messages[1] = Msg("system", SYSTEM_PROMPT)
                 /\ Len(after) = Len(storage'[s].messages) - 1
                 /\ Len(after) = Min(Len(before) + 1, MAX_MESSAGES - 1)
                 /\ IsSuffixOf(after, Append(before, after[Len(after)]))
      ]_vars

(* C27: ChatMemory pruning keeps whole user/assistant pairs.  In a history of
   successful turns taken one at a time, the stored list between turns is the
   system message followed by non-system messages that begin with a user
   message and alternate user, assistant. *)
C27_WholePairsKept ==
    \A s \in Sessions :
        (/\ cfg.variant = "fixed"
         /\ Active(s) = {}
         /\ hist[s].clean
         /\ hist[s].ok > 0)
        => LET kept == SelectSeq(storage[s].messages, NotSystem)
           IN  /\ Len(kept) > 0
               /\ IsUser(kept[1])
               /\ \A i \in 1..Len(kept) :
                     IF i % 2 = 1 THEN IsUser(kept[i]) ELSE IsAssistant(kept[i])

(* a reconcile has applied a summary to the session of turn r since the turn
   loaded its state: the stored summary is a job's and not the turn's *)
ReconciledSince(r) ==
    \E j \in JobIds :
        /\ jobs[j].pc \in {"completed", "redelivered"}
        /\ jobs[j].sessionId = req[r].session
        /\ storage[req[r].session].summary = jobs[j].summary
        /\ storage[req[r].session].summary # req[r].state.summary

IsCompleted(workflowStatus) ==
    workflowStatus # None /\ workflowStatus[1].status = "completed"

(* C28: the result of a reconcile is durable against in-flight turns.  When a
   deferred turn that loaded its state before a reconcile writes after it, the
   stored summary stays the reconciled one, the stored list gains nothing but
   the turn's reply, and a 'completed' status is not replaced by 'running'. *)
C28_ReconcileIsDurable ==
    [][ \A r \in Slots :
          (cfg.variant = "deferred" /\ req[r].pc = "chat" /\ req'[r].pc # "chat"
             /\ ReconciledSince(r))
          => LET s == req[r].session
             IN  /\ storage'[s].summary = storage[s].summary
                 /\ \A i \in 1..Len(storage'[s].messages) :
                       \/ \E k \in 1..Len(storage[s].messages) :
                             storage'[s].messages[i] = storage[s].messages[k]
                       \/ storage'[s].messages[i] =
                             Msg("assistant", PromptReply(req[r].state))
                 /\ ~(/\ IsCompleted(storage[s].workflowStatus)
                      /\ IsRunning(storage'[s].workflowStatus))
      ]_vars

(* C29: the dispatch records 'running' before the executor can act on the job.
   The put of workflowStatus that follows the creation of a job never writes
   'running' for that job once the job's reconcile has been applied to the
   session, so that a reconciled job leaves the stored status 'completed'. *)
C29_RunningRecordedBeforeJobActs ==
    [][ \A r \in Slots :
          (cfg.variant = "deferred" /\ req[r].pc = "created" /\ req'[r].pc = "idle")
          => ~\E j \in JobIds :
                 /\ jobs[j].id = req[r].workflowId[1]
                 /\ jobs[j].sessionId = req[r].session
                 /\ jobs[j].pc \in {"completed", "redelivered"}
                 /\ IsCompleted(storage[req[r].session].workflowStatus)
                 /\ IsRunning(storage'[req[r].session].workflowStatus)
      ]_vars

(* C30: after a clear the session stays empty until a new chat turn.  No step
   other than the beginning of a new turn of the session writes to a session
   that a clear has emptied: not the rest of a turn that was suspended on
   inference across the clear, not a job dispatched before it. *)
C30_ClearedStaysEmpty ==
    [][ \A s \in Sessions :
          (/\ cfg.variant \in {"inline", "deferred"}
           /\ seq[s] > 0
           /\ storage[s] = EmptyStorage
           /\ seq'[s] = seq[s])
          => storage'[s] = EmptyStorage
      ]_vars

(* C31: the order of the steps of an inline turn.  A turn first stores the list
   with the user message appended and only then calls the model; when the model
   has answered it stores that list with the reply appended, and goes on to the
   Summarizer exactly when the policy holds of the list it has just stored,
   reply included; the summarized state is stored last, as the turn's third
   write after its one Summarizer call.  The turn takes no other path. *)
C31_InlineStepOrder ==
    [][ \A r \in Slots :
          cfg.variant = "inline"
          => LET s == IF req[r].pc = "idle" THEN req'[r].session ELSE req[r].session
                 n == Len(storage'[s].messages)
             IN  /\ (req[r].pc = "idle" /\ req'[r].pc # "idle")
                      => /\ req'[r].pc = "chat"
                         /\ req'[r].effects = Written(NoEffects)
                         /\ storage'[s].messages = req'[r].state.messages
                         /\ storage'[s].messages[n] = Msg("user", seq'[s])
                 /\ (req[r].pc = "chat" /\ req'[r].pc # "chat")
                      => \/ req'[r].pc = "idle" /\ lastResp'.status = 500
                         \/ /\ storage'[s].messages =
                                  Append(req[r].state.messages,
                                         Msg("assistant", PromptReply(req[r].state)))
                            /\ storage'[s].summary = req[r].state.summary
                            /\ IF NeedsSummarization(Rolling_loadState(storage'[s]))
                               THEN /\ req'[r].pc = "summarizing"
                                    /\ req'[r].state = Rolling_loadState(storage'[s])
                                    /\ req'[r].effects =
                                          CalledSummarizer(Written(Written(NoEffects)))
                               ELSE /\ req'[r].pc = "idle"
                                    /\ lastResp'.status = 200
                                    /\ ~lastResp'.wasSummarized
                                    /\ lastResp'.effects = Written(Written(NoEffects))
                 /\ (req[r].pc = "summarizing" /\ req'[r].pc # "summarizing")
                      => /\ req'[r].pc = "idle"
                         /\ lastResp'.wasSummarized
                              => /\ lastResp'.effects =
                                      Written(CalledSummarizer(Written(Written(NoEffects))))
                                 /\ Rolling_loadState(storage'[s]) =
                                      SummarizedState(req[r].state,
                                                      storage'[s].summary[1])
      ]_vars

(* a turn is at its Summarizer call: the reply is the last stored message of a
   list of SUMMARIZE_THRESHOLD, saved by the turn's second write *)
C31_Witness ==
    \E r \in Slots :
       /\ cfg.variant = "inline"
       /\ req[r].pc = "summarizing"
       /\ req[r].effects = [writes |-> 2, calls |-> 1, dispatches |-> 0]
       /\ Len(storage[req[r].session].messages) = SUMMARIZE_THRESHOLD
       /\ IsAssistant(storage[req[r].session].messages[SUMMARIZE_THRESHOLD])

(* C32: the inline variant under sequential successful turns from the empty
   state.  Every stored list has at most SUMMARIZE_THRESHOLD messages; between
   turns the list has 2, 4, 6, 8 or 10 messages; and from the turn that first
   summarizes onward a summary is stored in every state. *)
C32_SequentialInlineShape ==
    \A s \in Sessions :
        (cfg.variant = "inline" /\ hist[s].clean)
        => /\ Len(storage[s].messages) <= SUMMARIZE_THRESHOLD
           /\ (Active(s) = {} /\ hist[s].ok > 0)
                => Len(storage[s].messages) \in {2, 4, 6, 8, 10}
           /\ hist[s].ok >= FirstPassTurns => storage[s].summary # None

(* eight successful turns in a row: the second pass has left a summary and
   RECENT_MESSAGE_LIMIT messages *)
C32_Witness ==
    /\ cfg.variant = "inline"
    /\ Quiet
    /\ hist["alice"] = [ok |-> 8, clean |-> TRUE]
    /\ Len(storage["alice"].messages) = RECENT_MESSAGE_LIMIT
    /\ storage["alice"].summary # None

(* C33: in the basic variant a turn that failed at the inference call leaves no
   trace.  The list a turn sends to the model, when no other turn of the
   session is in flight, is the persisted history followed by the new user
   message and nothing else, also when nothing has been persisted yet. *)
C33_FailedTurnLeavesNoTrace ==
    [][ \A r \in Slots :
          (/\ cfg.variant = "basic"
           /\ req[r].pc = "idle"
           /\ req'[r].pc = "chat"
           /\ Active(req'[r].session) = {})
          => req'[r].state.messages =
                Append(storage[req'[r].session].messages,
                       Msg("user", seq'[req'[r].session]))
      ]_vars

============================================================================
